---------------------------- MODULE Spec2Model ----------------------------
(***************************************************************************)
(* A model of the SSOSettings panel of the LiteLLM dashboard               *)
(* (ui/litellm-dashboard/src/components/SSOSettings.tsx).                  *)
(*                                                                         *)
(* The component holds five pieces of React state (loading, settings,      *)
(* isEditing, editedValues, saving) and one prop (accessToken).  State     *)
(* changes on discrete events: the mount effect, a change of the prop, the *)
(* completion of a fetch or of an update call, and the user's clicks and   *)
(* field changes.  An async handler is split at its await: the part before *)
(* the await is one action (it leaves a call in flight, together with the  *)
(* variables the handler's closure captured), the part after it is one     *)
(* action per outcome of the call.  The model follows one mount of the     *)
(* component, from its first render on.                                    *)
(***************************************************************************)
EXTENDS Integers, Sequences, FiniteSets, TLC

VARIABLES
    accessToken,   \* the prop: NullToken or a string
    mounted,       \* the mount effect has run
    loading,       \* useState(true)
    settings,      \* useState(null): NoSettings or [values, schema]
    isEditing,     \* useState(false)
    editedValues,  \* useState({}): the edit buffer, a map key -> value
    saving,        \* useState(false)
    fetches,       \* getInternalUserSettings calls in flight
    updates,       \* updateInternalUserSettings calls in flight
    nFetch,        \* fetch calls issued so far
    nSave,         \* update calls issued so far
    nChange,       \* field changes made so far
    nToken,        \* changes of the prop so far
    lastEvent,     \* history: the last event handled
    hist,          \* history: snapshots taken at the Edit and Save clicks
    rendered       \* the last call of a field renderer: its arguments and its element

vars == <<accessToken, mounted, loading, settings, isEditing, editedValues,
          saving, fetches, updates, nFetch, nSave, nChange, nToken,
          lastEvent, hist, rendered>>

panelVars == <<accessToken, mounted, loading, settings, isEditing, editedValues,
               saving, fetches, updates, nFetch, nSave, nChange, nToken,
               lastEvent, hist>>

----------------------------------------------------------------------------
(* Bounds of the model. *)

MaxFetch == 2
MaxSave == 2
MaxChange == 2
MaxToken == 2

----------------------------------------------------------------------------
(* JavaScript values.  Every value is a record of one shape, tagged by its *)
(* kind: b holds a boolean, s a string or the decimal text of a number,    *)
(* l the items of an array or the entries [key, val] of an object.         *)

JSValue(k, b, s, l) == [k |-> k, b |-> b, s |-> s, l |-> l]

Undefined == JSValue("undefined", FALSE, "", <<>>)
JNull == JSValue("null", FALSE, "", <<>>)
JBool(x) == JSValue("boolean", x, "", <<>>)
JNum(text) == JSValue("number", FALSE, text, <<>>)
JStr(x) == JSValue("string", FALSE, x, <<>>)
JArr(items) == JSValue("array", FALSE, "", items)
JObj(entries) == JSValue("object", FALSE, "", entries)

\* typeof v
TypeOf(v) ==
    IF v.k \in {"null", "array", "object"} THEN "object" ELSE v.k

\* Array.isArray(v)
IsArray(v) == v.k = "array"

\* the truthiness of v, as !!v, v || d and v && e take it
Truthy(v) ==
    CASE v.k \in {"undefined", "null"} -> FALSE
      [] v.k = "boolean" -> v.b
      [] v.k = "number" -> v.s \notin {"0", "NaN"}
      [] v.k = "string" -> v.s # ""
      [] OTHER -> TRUE

\* v || d
OrElse(v, d) == IF Truthy(v) THEN v ELSE d

RECURSIVE JoinWith(_, _)
\* the strings of a sequence joined by sep
JoinWith(strs, sep) ==
    IF Len(strs) = 0 THEN ""
    ELSE IF Len(strs) = 1 THEN strs[1]
    ELSE strs[1] \o sep \o JoinWith(Tail(strs), sep)

RECURSIVE ToStr(_)
\* String(v)
ToStr(v) ==
    CASE v.k = "undefined" -> "undefined"
      [] v.k = "null" -> "null"
      [] v.k = "boolean" -> (IF v.b THEN "true" ELSE "false")
      [] v.k \in {"number", "string"} -> v.s
      [] v.k = "array" ->
            JoinWith([i \in 1..Len(v.l) |->
                        IF v.l[i].k \in {"undefined", "null"} THEN ""
                        ELSE ToStr(v.l[i])], ",")
      [] OTHER -> "[object Object]"

RECURSIVE Spaces(_)
Spaces(n) == IF n = 0 THEN "" ELSE " " \o Spaces(n - 1)

RECURSIVE JSONStringify(_, _, _)
\* JSON.stringify(v, null, indent), at nesting depth `depth`; indent = 0 is
\* JSON.stringify(v)
JSONStringify(v, indent, depth) ==
    LET open(br) == IF indent = 0 THEN br
                    ELSE br \o "\n" \o Spaces(indent * (depth + 1))
        close(br) == IF indent = 0 THEN br
                     ELSE "\n" \o Spaces(indent * depth) \o br
        sep == IF indent = 0 THEN ","
               ELSE ",\n" \o Spaces(indent * (depth + 1))
        colon == IF indent = 0 THEN ":" ELSE ": "
    IN  CASE v.k \in {"undefined", "null"} -> "null"
          [] v.k = "boolean" -> (IF v.b THEN "true" ELSE "false")
          [] v.k = "number" -> v.s
          [] v.k = "string" -> "\"" \o v.s \o "\""
          [] v.k = "array" ->
                IF Len(v.l) = 0 THEN "[]"
                ELSE open("[")
                     \o JoinWith([i \in 1..Len(v.l) |->
                                    JSONStringify(v.l[i], indent, depth + 1)], sep)
                     \o close("]")
          [] OTHER ->
                IF Len(v.l) = 0 THEN "{}"
                ELSE open("{")
                     \o JoinWith([i \in 1..Len(v.l) |->
                                    "\"" \o v.l[i].key \o "\"" \o colon
                                    \o JSONStringify(v.l[i].val, indent, depth + 1)],
                                 sep)
                     \o close("}")

----------------------------------------------------------------------------
(* Maps from field key to value (the `values` object and the edit buffer): *)
(* a function whose domain is the set of keys present.                     *)

EmptyMap == <<>>

\* m[key]
Get(m, key) == IF key \in DOMAIN m THEN m[key] ELSE Undefined

\* {...m, [key]: v}
Put(m, key, v) ==
    [x \in (DOMAIN m) \cup {key} |-> IF x = key THEN v ELSE m[x]]

\* Object.keys(m)
Keys(m) == DOMAIN m

----------------------------------------------------------------------------
(* The schema: each property is {type, enum?, items?: {enum?}, description?}. *)

Property(type, enum, items, description) ==
    [type |-> type, enum |-> enum, items |-> items, description |-> description]

\* property.items?.enum
ItemsEnum(property) ==
    IF property.items.present THEN property.items.enum ELSE Undefined

StrArr(strs) == JArr([i \in 1..Len(strs) |-> JStr(strs[i])])

NoItems == [present |-> FALSE, enum |-> Undefined]
ItemsOf(enum) == [present |-> TRUE, enum |-> enum]

PropFlag == Property("boolean", Undefined, NoItems, "Enable SSO")
PropRole == Property("string", StrArr(<<"a", "b">>), NoItems, "")

\* schema objects the server describes the settings with; the last one carries
\* no `properties`
SchemaFlag ==
    [hasProperties |-> TRUE, properties |-> ("flag" :> PropFlag),
     description |-> "SSO"]
SchemaFlagRole ==
    [hasProperties |-> TRUE,
     properties |-> ("flag" :> PropFlag @@ "role" :> PropRole),
     description |-> ""]
SchemaNone ==
    [hasProperties |-> FALSE, properties |-> EmptyMap, description |-> ""]

\* useState<any>(null)
NoSettings == [values |-> EmptyMap, schema |-> SchemaNone, isNull |-> TRUE]

Settings(values, schema) == [values |-> values, schema |-> schema, isNull |-> FALSE]

\* what getInternalUserSettings may resolve to: {values, schema}
FetchResponses ==
    { Settings(EmptyMap, SchemaFlag),
      Settings("flag" :> JBool(TRUE), SchemaFlagRole),
      Settings("role" :> JStr("a"), SchemaFlag),
      Settings(EmptyMap, SchemaNone) }

\* what updateInternalUserSettings may resolve to, in its `settings` field: the
\* map it was sent, or the map the server persisted in its place
UpdateResponses(payload) ==
    {payload, EmptyMap, "flag" :> JBool(FALSE)}

\* the accessToken prop: string | null
NullToken == "<null>"
Tokens == {NullToken, "", "tok1"}

\* !accessToken
Falsy(token) == token \in {NullToken, ""}

----------------------------------------------------------------------------
(* The field renderers.  An element is a record of one shape: el names the *)
(* element, text its text, chips the texts of a chip list, and checked,    *)
(* value and options the props of an edit control.                         *)

Element(el, text, chips, checked, value, options) ==
    [el |-> el, text |-> text, chips |-> chips, checked |-> checked,
     value |-> value, options |-> options]

NoElement == Element("none", "", <<>>, FALSE, Undefined, <<>>)
Span(text) == Element("span", text, <<>>, FALSE, Undefined, <<>>)
Chips(texts) == Element("chips", "", texts, FALSE, Undefined, <<>>)
Pre(text) == Element("pre", text, <<>>, FALSE, Undefined, <<>>)
Switch(checked) == Element("Switch", "", <<>>, checked, Undefined, <<>>)
Select(mode, value, options) == Element(mode, "", <<>>, FALSE, value, options)
TextInput(text) == Element("TextInput", text, <<>>, FALSE, Undefined, <<>>)

\* renderValue without its `value.length === 0` case
renderValueWithoutNone(value) ==
    IF value.k \in {"null", "undefined"} THEN Span("Not set")
    ELSE IF TypeOf(value) = "boolean"
         THEN Span(IF value.b THEN "Enabled" ELSE "Disabled")
    ELSE IF TypeOf(value) = "object"
         THEN IF IsArray(value)
              THEN Chips([i \in 1..Len(value.l) |->
                            IF TypeOf(value.l[i]) = "object"
                            THEN JSONStringify(value.l[i], 0, 0)
                            ELSE ToStr(value.l[i])])
              ELSE Pre(JSONStringify(value, 2, 0))
    ELSE Span(ToStr(value))

\* renderValue(value): the read-mode element of a field
renderValue(value) ==
    IF value.k \in {"null", "undefined"} THEN Span("Not set")
    ELSE IF TypeOf(value) = "boolean"
         THEN Span(IF value.b THEN "Enabled" ELSE "Disabled")
    ELSE IF TypeOf(value) = "object"
         THEN IF IsArray(value)
              THEN IF Len(value.l) = 0 THEN Span("None")
                   ELSE Chips([i \in 1..Len(value.l) |->
                                 IF TypeOf(value.l[i]) = "object"
                                 THEN JSONStringify(value.l[i], 0, 0)
                                 ELSE ToStr(value.l[i])])
              ELSE Pre(JSONStringify(value, 2, 0))
    ELSE Span(ToStr(value))

\* renderEditableField(key, property, value): the edit-mode control of a field;
\* it reads the edit buffer and never its `value` parameter
renderEditableField(key, property, value) ==
    LET edited == Get(editedValues, key)
    IN  IF property.type = "boolean" THEN Switch(Truthy(edited))
        ELSE IF property.type = "array" /\ Truthy(ItemsEnum(property))
             THEN Select("MultiSelect", OrElse(edited, JArr(<<>>)),
                         ItemsEnum(property).l)
        ELSE IF property.type = "string" /\ Truthy(property.enum)
             THEN Select("Select", OrElse(edited, JStr("")), property.enum.l)
        ELSE TextInput(IF edited # Undefined THEN ToStr(edited) ELSE "")

\* the body of renderSettings for one key of schema.properties
renderField(key) ==
    LET property == settings.schema.properties[key]
        value == Get(settings.values, key)
    IN  IF isEditing THEN renderEditableField(key, property, value)
        ELSE renderValue(value)

\* a call of a field renderer and the element it returned
Rendering(fn, key, property, value, out) ==
    [fn |-> fn, key |-> key, property |-> property, value |-> value, out |-> out]

NoRender ==
    Rendering("none", "", Property("", Undefined, NoItems, ""), Undefined, NoElement)

\* the values the user can give a field through its control
ControlInputs(control) ==
    CASE control.el = "Switch" -> {JBool(TRUE), JBool(FALSE)}
      [] control.el = "Select" ->
            {control.options[i] : i \in 1..Len(control.options)}
      [] control.el = "MultiSelect" ->
            {JArr(<<>>), JArr(control.options)}
            \cup {JArr(<<control.options[i]>>) : i \in 1..Len(control.options)}
      [] OTHER -> {JStr(""), JStr("x")}

----------------------------------------------------------------------------
(* What the component shows, by the branches of its return. *)

ShowsSpinner == loading
ShowsEmptyState == ~loading /\ settings.isNull
ShowsPanel == ~loading /\ ~settings.isNull
ShowsFields == ShowsPanel /\ settings.schema.hasProperties

EditOffered == ShowsPanel /\ ~isEditing
\* CancelEnabled with a Cancel button that lacks disabled={saving}
CancelEnabledWhileSaving == ShowsPanel /\ isEditing

\* disabled={saving}
CancelEnabled == ShowsPanel /\ isEditing /\ ~saving
\* SaveEnabled with a Save Changes button that takes clicks while saving
SaveEnabledWhileSaving == ShowsPanel /\ isEditing

\* loading={saving}: the button takes no click while it shows its spinner
SaveEnabled == ShowsPanel /\ isEditing /\ ~saving

----------------------------------------------------------------------------
(* History variables. *)

Event(name, payload, reply) == [name |-> name, payload |-> payload, reply |-> reply]
Ev(name) == Event(name, EmptyMap, EmptyMap)

\* fetched: a fetch has resolved; editValues: settings.values at the last Edit
\* Settings click; editClean: no fetch has resolved since that click; dirty: a
\* field was changed since that click; saveClean: no fetch has resolved since
\* the last Save Changes click; schema: the schema the last resolved fetch
\* delivered
NoHist ==
    [fetched |-> FALSE, editValues |-> EmptyMap, editClean |-> FALSE,
     dirty |-> FALSE, saveClean |-> FALSE, schema |-> SchemaNone]

----------------------------------------------------------------------------
(* The panel. *)

Init ==
    /\ accessToken \in Tokens
    /\ mounted = FALSE
    /\ loading = TRUE
    /\ settings = NoSettings
    /\ isEditing = FALSE
    /\ editedValues = EmptyMap
    /\ saving = FALSE
    /\ fetches = {}
    /\ updates = {}
    /\ nFetch = 0
    /\ nSave = 0
    /\ nChange = 0
    /\ nToken = 0
    /\ lastEvent = Ev("init")
    /\ hist = NoHist
    /\ rendered = NoRender

\* fetchSSOSettings without its `if (!accessToken)` early return
fetchWithoutTokenCheck(token) ==
    /\ nFetch < MaxFetch
    /\ fetches' = fetches \cup {[id |-> nFetch + 1, token |-> token]}
    /\ nFetch' = nFetch + 1
    /\ UNCHANGED loading

\* fetchSSOSettings with a setLoading(true) before its call
fetchShowingSpinner(token) ==
    IF Falsy(token)
    THEN /\ loading' = FALSE
         /\ UNCHANGED <<fetches, nFetch>>
    ELSE /\ nFetch < MaxFetch
         /\ fetches' = fetches \cup {[id |-> nFetch + 1, token |-> token]}
         /\ nFetch' = nFetch + 1
         /\ loading' = TRUE

\* fetchSSOSettings up to its await, with the token of the render whose effect
\* runs
fetchSSOSettings(token) ==
    IF Falsy(token)
    THEN /\ loading' = FALSE
         /\ UNCHANGED <<fetches, nFetch>>
    ELSE /\ nFetch < MaxFetch
         /\ fetches' = fetches \cup {[id |-> nFetch + 1, token |-> token]}
         /\ nFetch' = nFetch + 1
         /\ UNCHANGED loading

\* the first run of useEffect(..., [accessToken])
Mount ==
    /\ ~mounted
    /\ mounted' = TRUE
    /\ fetchSSOSettings(accessToken)
    /\ lastEvent' = Ev("Mount")
    /\ UNCHANGED <<accessToken, settings, isEditing, editedValues, saving,
                   updates, nSave, nChange, nToken, hist, rendered>>

\* TokenChange with an effect that runs on mount only: useEffect(..., [])
TokenChangeWithoutRefetch(token) ==
    /\ mounted
    /\ token # accessToken
    /\ nToken < MaxToken
    /\ accessToken' = token
    /\ nToken' = nToken + 1
    /\ lastEvent' = Ev("TokenChange")
    /\ UNCHANGED <<mounted, loading, settings, isEditing, editedValues, saving,
                   fetches, updates, nFetch, nSave, nChange, hist, rendered>>

\* the parent passes another accessToken: the effect runs again
TokenChange(token) ==
    /\ mounted
    /\ token # accessToken
    /\ nToken < MaxToken
    /\ accessToken' = token
    /\ nToken' = nToken + 1
    /\ fetchSSOSettings(token)
    /\ lastEvent' = Ev("TokenChange")
    /\ UNCHANGED <<mounted, settings, isEditing, editedValues, saving,
                   updates, nSave, nChange, hist, rendered>>

\* fetchSSOSettings after its await, the call resolved with data; data.values
\* is an object, for which `data.values || {}` is data.values
FetchOk(call, data) ==
    /\ call \in fetches
    /\ fetches' = fetches \ {call}
    /\ settings' = data
    /\ editedValues' = data.values
    /\ loading' = FALSE
    /\ lastEvent' = Event("FetchOk", EmptyMap, data.values)
    /\ hist' = [hist EXCEPT !.fetched = TRUE, !.editClean = FALSE,
                            !.saveClean = FALSE, !.schema = data.schema]
    /\ UNCHANGED <<accessToken, mounted, isEditing, saving, updates, nFetch,
                   nSave, nChange, nToken, rendered>>

\* FetchFail without the finally block's setLoading(false)
FetchFailKeepingSpinner(call) ==
    /\ call \in fetches
    /\ fetches' = fetches \ {call}
    /\ lastEvent' = Ev("FetchFail")
    /\ UNCHANGED <<accessToken, mounted, loading, settings, isEditing,
                   editedValues, saving, updates, nFetch, nSave, nChange,
                   nToken, hist, rendered>>

\* fetchSSOSettings after its await, the call rejected
FetchFail(call) ==
    /\ call \in fetches
    /\ fetches' = fetches \ {call}
    /\ loading' = FALSE
    /\ lastEvent' = Ev("FetchFail")
    /\ UNCHANGED <<accessToken, mounted, settings, isEditing, editedValues,
                   saving, updates, nFetch, nSave, nChange, nToken, hist,
                   rendered>>

\* the Edit Settings button
EditClick ==
    /\ mounted
    /\ EditOffered
    /\ isEditing' = TRUE
    /\ lastEvent' = Ev("EditClick")
    /\ hist' = [hist EXCEPT !.editValues = settings.values,
                            !.editClean = TRUE, !.dirty = FALSE]
    /\ UNCHANGED <<accessToken, mounted, loading, settings, editedValues,
                   saving, fetches, updates, nFetch, nSave, nChange, nToken,
                   rendered>>

\* handleTextInputChange without the spread of prev: {[key]: value}
handleChangeDroppingPrev(prev, key, value) == key :> value

\* handleTextInputChange(key, value): the buffer it sets
handleTextInputChange(prev, key, value) == Put(prev, key, value)

\* the user changes a field: the onChange of the control renderSettings shows
\* for a key of schema.properties
FieldChange ==
    /\ mounted
    /\ ShowsFields
    /\ isEditing
    /\ nChange < MaxChange
    /\ \E key \in Keys(settings.schema.properties) :
         \E value \in ControlInputs(renderField(key)) :
            editedValues' = handleTextInputChange(editedValues, key, value)
    /\ nChange' = nChange + 1
    /\ lastEvent' = Ev("FieldChange")
    /\ hist' = [hist EXCEPT !.dirty = TRUE]
    /\ UNCHANGED <<accessToken, mounted, loading, settings, isEditing, saving,
                   fetches, updates, nFetch, nSave, nToken, rendered>>

\* CancelClick without setEditedValues(settings.values || {})
CancelKeepingBuffer ==
    /\ mounted
    /\ CancelEnabled
    /\ isEditing' = FALSE
    /\ lastEvent' = Ev("CancelClick")
    /\ UNCHANGED <<accessToken, mounted, loading, settings, editedValues,
                   saving, fetches, updates, nFetch, nSave, nChange, nToken,
                   hist, rendered>>

\* the Cancel button; settings.values is an object, for which
\* `settings.values || {}` is settings.values
CancelClick ==
    /\ mounted
    /\ CancelEnabled
    /\ isEditing' = FALSE
    /\ editedValues' = settings.values
    /\ lastEvent' = Ev("CancelClick")
    /\ UNCHANGED <<accessToken, mounted, loading, settings, saving, fetches,
                   updates, nFetch, nSave, nChange, nToken, hist, rendered>>

\* handleSaveSettings up to its await: the Save Changes button
SaveClick ==
    /\ mounted
    /\ SaveEnabled
    /\ lastEvent' = Event("SaveClick", editedValues, EmptyMap)
    /\ IF Falsy(accessToken)
       THEN UNCHANGED <<saving, updates, nSave, hist>>
       ELSE /\ nSave < MaxSave
            /\ saving' = TRUE
            /\ updates' = updates \cup
                 {[id |-> nSave + 1, token |-> accessToken,
                   payload |-> editedValues, settings |-> settings]}
            /\ nSave' = nSave + 1
            /\ hist' = [hist EXCEPT !.saveClean = TRUE]
    /\ UNCHANGED <<accessToken, mounted, loading, settings, isEditing,
                   editedValues, fetches, nFetch, nChange, nToken, rendered>>

\* SaveOk displaying the submitted buffer instead of the server's reply
SaveOkShowingPayload(call, returned) ==
    /\ call \in updates
    /\ updates' = updates \ {call}
    /\ settings' = [call.settings EXCEPT !.values = call.payload]
    /\ isEditing' = FALSE
    /\ saving' = FALSE
    /\ lastEvent' = Event("SaveOk", call.payload, returned)
    /\ hist' = [NoHist EXCEPT !.fetched = hist.fetched,
                              !.schema = hist.schema]
    /\ UNCHANGED <<accessToken, mounted, loading, editedValues, fetches,
                   nFetch, nSave, nChange, nToken, rendered>>

\* handleSaveSettings after its await, the call resolved with
\* {settings: returned}
SaveOk(call, returned) ==
    /\ call \in updates
    /\ updates' = updates \ {call}
    /\ settings' = [call.settings EXCEPT !.values = returned]
    /\ isEditing' = FALSE
    /\ saving' = FALSE
    /\ lastEvent' = Event("SaveOk", call.payload, returned)
    /\ hist' = [NoHist EXCEPT !.fetched = hist.fetched,
                              !.schema = hist.schema]
    /\ UNCHANGED <<accessToken, mounted, loading, editedValues, fetches,
                   nFetch, nSave, nChange, nToken, rendered>>

\* SaveFail with setIsEditing(false) moved into the finally block
SaveFailLeavingEditMode(call) ==
    /\ call \in updates
    /\ updates' = updates \ {call}
    /\ saving' = FALSE
    /\ isEditing' = FALSE
    /\ lastEvent' = Event("SaveFail", call.payload, EmptyMap)
    /\ hist' = [hist EXCEPT !.saveClean = FALSE]
    /\ UNCHANGED <<accessToken, mounted, loading, settings, editedValues,
                   fetches, nFetch, nSave, nChange, nToken, rendered>>

\* handleSaveSettings after its await, the call rejected
SaveFail(call) ==
    /\ call \in updates
    /\ updates' = updates \ {call}
    /\ saving' = FALSE
    /\ lastEvent' = Event("SaveFail", call.payload, EmptyMap)
    /\ hist' = [hist EXCEPT !.saveClean = FALSE]
    /\ UNCHANGED <<accessToken, mounted, loading, settings, isEditing,
                   editedValues, fetches, nFetch, nSave, nChange, nToken,
                   rendered>>

Next ==
    \/ Mount
    \/ \E token \in Tokens : TokenChange(token)
    \/ \E call \in fetches, data \in FetchResponses : FetchOk(call, data)
    \/ \E call \in fetches : FetchFail(call)
    \/ EditClick
    \/ FieldChange
    \/ CancelClick
    \/ SaveClick
    \/ \E call \in updates :
          \E returned \in UpdateResponses(call.payload) : SaveOk(call, returned)
    \/ \E call \in updates : SaveFail(call)

Spec == Init /\ [][Next]_vars

----------------------------------------------------------------------------
(* The field renderers on their own: the panel right after a fetch that    *)
(* delivered one property and its stored value, then Edit Settings and     *)
(* Cancel, and renderSettings calling the renderer of the current mode.    *)

RenderProperties ==
    { PropFlag,
      PropRole,
      Property("string", Undefined, NoItems, "Display name"),
      Property("string", StrArr(<<>>), NoItems, ""),
      Property("array", Undefined, ItemsOf(StrArr(<<"a", "b">>)), "Teams"),
      Property("array", Undefined, ItemsOf(Undefined), ""),
      Property("array", Undefined, NoItems, ""),
      Property("number", Undefined, NoItems, "Max budget"),
      Property("object", Undefined, NoItems, "") }

RenderValues ==
    { Undefined, JNull, JBool(TRUE), JBool(FALSE),
      JStr("a"), JStr(""), JNum("5"), JNum("0"),
      JArr(<<>>), StrArr(<<"a">>), StrArr(<<"b", "a">>),
      JArr(<<JNum("1"), JNull, JBool(TRUE)>>),
      JArr(<<JObj(<<[key |-> "id", val |-> JNum("1")]>>), JStr("a")>>),
      JArr(<<StrArr(<<"a", "b">>)>>),
      JObj(<<>>),
      JObj(<<[key |-> "id", val |-> JNum("1")],
             [key |-> "tags", val |-> StrArr(<<"a">>)]>>) }

\* the values object holding value under key; undefined is an absent key
ValuesOf(key, value) == IF value = Undefined THEN EmptyMap ELSE key :> value

InitRender ==
    /\ accessToken = "tok1"
    /\ mounted = TRUE
    /\ loading = FALSE
    /\ \E property \in RenderProperties, value \in RenderValues :
         /\ settings = Settings(ValuesOf("field", value),
                                [hasProperties |-> TRUE,
                                 properties |-> ("field" :> property),
                                 description |-> ""])
         /\ editedValues = ValuesOf("field", value)
         /\ lastEvent = Event("FetchOk", EmptyMap, ValuesOf("field", value))
         /\ hist = [NoHist EXCEPT !.fetched = TRUE, !.schema = settings.schema]
    /\ isEditing = FALSE
    /\ saving = FALSE
    /\ fetches = {}
    /\ updates = {}
    /\ nFetch = 1
    /\ nSave = 0
    /\ nChange = 0
    /\ nToken = 0
    /\ rendered = NoRender

\* renderSettings renders one field of schema.properties in the current mode
RenderField ==
    /\ mounted
    /\ ShowsFields
    /\ \E key \in Keys(settings.schema.properties) :
         rendered' = Rendering(
             IF isEditing THEN "renderEditableField" ELSE "renderValue",
             key, settings.schema.properties[key], Get(settings.values, key),
             renderField(key))
    /\ UNCHANGED panelVars

NextRender ==
    \/ EditClick
    \/ CancelClick
    \/ RenderField

SpecRender == InitRender /\ [][NextRender]_vars

----------------------------------------------------------------------------
(* Claims. *)

\* C1 (as claimed): whenever an update call issued by Save fails,
\* settings.values after the failure equals settings.values before the Save
\* click (the settings the handler captured at the click), the panel is still
\* in edit mode, the failure handling does not modify the edit buffer, and
\* saving is false again.
C1_FailedSaveKeepsValuesOfClick ==
    [][\A call \in updates :
         SaveFail(call) =>
            /\ settings'.values = call.settings.values
            /\ isEditing'
            /\ editedValues' = editedValues
            /\ ~saving']_vars

\* C1 (amended): whenever an update call issued by Save fails, the failure
\* changes neither settings nor the edit buffer, the panel was and stays in
\* edit mode, saving goes from true to false and Save Changes takes clicks
\* again; settings.values then equals settings.values before the Save click
\* unless a fetch resolved while the call was in flight.
C1_FailedSaveChangesNothing ==
    [][\A call \in updates :
         SaveFail(call) =>
            /\ settings' = settings
            /\ isEditing /\ isEditing'
            /\ editedValues' = editedValues
            /\ saving /\ ~saving'
            /\ SaveEnabled'
            /\ hist.saveClean => settings'.values = call.settings.values]_vars

\* C1 witness: a save has just failed with an edit pending and no fetch in
\* between; the form is still open with the edit in it.
C1_Witness ==
    /\ lastEvent.name = "SaveFail"
    /\ hist.dirty
    /\ isEditing
    /\ ~saving
    /\ editedValues = lastEvent.payload
    /\ editedValues # settings.values

\* C2: a Save click with a credential issues exactly one update call whose
\* payload is the edit buffer as of the click; when an update call succeeds,
\* settings.values is the map the server returned and the panel is in read
\* mode.
C2_SaveSubmitsBufferAndShowsReply ==
    [][/\ (SaveClick /\ ~Falsy(accessToken)) =>
             \E call \in updates' :
                /\ updates' = updates \cup {call}
                /\ call \notin updates
                /\ call.payload = editedValues
                /\ call.token = accessToken
       /\ \A call \in updates :
             \A returned \in UpdateResponses(call.payload) :
                SaveOk(call, returned) =>
                   /\ settings'.values = returned
                   /\ ~isEditing'
                   /\ lastEvent'.payload = call.payload]_vars

\* C2 witness: fetch delivered no stored value for the boolean property "flag";
\* Edit, toggle on, Save, the server returned the submitted map: read mode now
\* shows "Enabled" for it.
C2_Witness ==
    /\ lastEvent = Event("SaveOk", "flag" :> JBool(TRUE), "flag" :> JBool(TRUE))
    /\ nFetch = 1 /\ nChange = 1 /\ nSave = 1
    /\ settings = Settings("flag" :> JBool(TRUE), SchemaFlag)
    /\ ~isEditing
    /\ renderField("flag") = Span("Enabled")

\* C3: Cancel leaves settings unchanged, resets the edit buffer to
\* settings.values, leaves edit mode and issues no update call; when only
\* field changes (no resolved fetch) happened since edit mode was entered,
\* settings.values is what it was on entering edit mode.
C3_CancelRestoresDisplayedValues ==
    [][CancelClick =>
          /\ settings' = settings
          /\ editedValues' = settings'.values
          /\ ~isEditing'
          /\ updates' = updates /\ nSave' = nSave /\ ~saving'
          /\ hist.editClean => settings'.values = hist.editValues]_vars

\* C3 witness: Cancel was just clicked after fields were changed in this edit
\* session; the displayed values are those of the Edit click and the buffer
\* holds them again.
C3_Witness ==
    /\ lastEvent.name = "CancelClick"
    /\ hist.dirty /\ hist.editClean
    /\ nChange = MaxChange
    /\ ~isEditing
    /\ settings.values = hist.editValues
    /\ editedValues = settings.values

\* C4 (as claimed): in the state right after the Edit Settings click the edit
\* buffer equals settings.values.
C4_EditSeedsBufferFromValues ==
    lastEvent.name = "EditClick" => editedValues = settings.values

\* C5: at most one update call is in flight; while one is, saving is true and
\* the Save Changes button takes no click; saving is true only while a call
\* is in flight.
C5_OneSaveInFlight ==
    /\ Cardinality(updates) <= 1
    /\ updates # {} => saving /\ ~SaveEnabled
    /\ saving => updates # {}

\* C5 witness: the second update call of the session is in flight, alone.
C5_Witness ==
    /\ nSave = 2
    /\ saving
    /\ Cardinality(updates) = 1

\* the React state of the component
componentState == <<loading, settings, isEditing, editedValues, saving>>

\* C6: no call in flight carries a null (or empty) credential; a mount or a
\* credential change with a null credential issues no call and leaves
\* loading = false, a mount with a null credential also settings = null; a
\* Save click with a null credential issues no call and changes no state.
C6_NoCredentialNoCall ==
    [][/\ \A call \in fetches' \cup updates' : ~Falsy(call.token)
       /\ ((Mount \/ \E token \in Tokens : TokenChange(token))
             /\ Falsy(accessToken')) =>
             /\ fetches' = fetches /\ nFetch' = nFetch
             /\ updates' = updates /\ nSave' = nSave
             /\ ~loading'
       /\ (Mount /\ Falsy(accessToken)) => ShowsEmptyState' /\ settings'.isNull
       /\ (SaveClick /\ Falsy(accessToken)) =>
             /\ fetches' = fetches /\ nFetch' = nFetch
             /\ updates' = updates /\ nSave' = nSave
             /\ ~saving'
             /\ componentState' = componentState]_vars

\* C6 witness: Save Changes was just clicked with a null credential (the
\* settings were fetched before the credential was withdrawn); nothing is in
\* flight and the form is as it was.
C6_Witness ==
    /\ lastEvent.name = "SaveClick"
    /\ accessToken = NullToken
    /\ isEditing
    /\ hist.dirty
    /\ ~saving
    /\ updates = {} /\ fetches = {} /\ nSave = 0

\* C7 (as claimed): whenever a fetch call fails, loading is false afterwards,
\* the empty / permission-denied view is shown (settings is null, none of
\* Edit, Save, Cancel is offered), and nothing but loading has changed.
C7_FetchFailureShowsEmptyState ==
    [][\A call \in fetches :
         FetchFail(call) =>
            /\ ~loading'
            /\ ShowsEmptyState' /\ settings'.isNull
            /\ ~EditOffered' /\ ~SaveEnabled' /\ ~CancelEnabled'
            /\ UNCHANGED <<settings, isEditing, editedValues, saving>>]_vars

\* C7 (amended): whenever a fetch call fails, loading is false afterwards and
\* nothing but loading has changed; the empty / permission-denied view is
\* shown (settings is null, none of Edit, Save, Cancel is offered) when no
\* fetch has succeeded before, and the panel keeps showing the settings of the
\* last successful fetch or save otherwise.
C7_FetchFailureChangesOnlyLoading ==
    [][\A call \in fetches :
         FetchFail(call) =>
            /\ ~loading'
            /\ UNCHANGED <<settings, isEditing, editedValues, saving>>
            /\ updates' = updates
            /\ ~hist.fetched =>
                  /\ ShowsEmptyState' /\ settings'.isNull
                  /\ ~EditOffered' /\ ~SaveEnabled' /\ ~CancelEnabled'
            /\ hist.fetched => ShowsPanel' /\ ~settings'.isNull]_vars

\* C7 witness: the first fetch has just failed; the spinner is gone and the
\* empty view is shown.
C7_Witness ==
    /\ lastEvent.name = "FetchFail"
    /\ ~hist.fetched
    /\ ~loading
    /\ ShowsEmptyState

\* C8 (as claimed): the keys of the edit buffer are keys of
\* settings.schema.properties.
C8_BufferKeysInSchema ==
    Keys(editedValues) \subseteq Keys(settings.schema.properties)

\* value is null or undefined: what read mode shows as "Not set"
NotSet(value) == value.k \in {"null", "undefined"}

\* the members of a JavaScript array, as a set
Members(array) == {array.l[i] : i \in 1..Len(array.l)}

\* C9 (as claimed): the edit-mode control of a field is chosen from its schema
\* and seeded with the field's current value: boolean gives a toggle, on when
\* the value is true and off when it is false or not set; string with an enum
\* gives a single select over exactly the enum members with the current value
\* preselected; array with items.enum gives a multi select over exactly
\* items.enum with the current members preselected; every other property
\* gives a text input holding the stringified value, empty when the value is
\* not set.
C9_EditControlBySchema ==
    rendered.fn = "renderEditableField" =>
       LET property == rendered.property
           value == rendered.value
           out == rendered.out
       IN  CASE property.type = "boolean" ->
                  /\ out.el = "Switch"
                  /\ value.k = "boolean" => out.checked = value.b
                  /\ NotSet(value) => ~out.checked
             [] property.type = "string" /\ property.enum.k = "array" ->
                  /\ out.el = "Select"
                  /\ out.options = property.enum.l
                  /\ value \in Members(property.enum) => out.value = value
             [] property.type = "array" /\ ItemsEnum(property).k = "array" ->
                  /\ out.el = "MultiSelect"
                  /\ out.options = ItemsEnum(property).l
                  /\ value.k = "array" => out.value = value
             [] OTHER ->
                  /\ out.el = "TextInput"
                  /\ out.text = IF NotSet(value) THEN "" ELSE ToStr(value)

\* the read-mode chip of an array element: JSON text for an object (an array
\* included), the string form otherwise
ChipText(item) ==
    IF item.k \in {"object", "array"} THEN JSONStringify(item, 0, 0)
    ELSE ToStr(item)

\* C10 (as claimed): the read-mode element of a field is, by its value: "Not
\* set" for null or undefined; "Enabled" / "Disabled" for a boolean; for every
\* array a chip list with one chip per element; a pretty-printed block for a
\* plain object; the string form for any other value.
C10_ReadModeByValue ==
    rendered.fn = "renderValue" =>
       LET value == rendered.value
           out == rendered.out
       IN  CASE NotSet(value) -> out = Span("Not set")
             [] value.k = "boolean" ->
                  out = Span(IF value.b THEN "Enabled" ELSE "Disabled")
             [] value.k = "array" ->
                  /\ out.el = "chips"
                  /\ Len(out.chips) = Len(value.l)
                  /\ \A i \in 1..Len(value.l) : out.chips[i] = ChipText(value.l[i])
             [] value.k = "object" -> out = Pre(JSONStringify(value, 2, 0))
             [] OTHER -> out = Span(value.s)

\* C10 (amended): as claimed, but an array renders as a chip list with one
\* chip per element only when it is not empty; the empty array renders as the
\* text "None".
C10_ReadModeByValueOrNone ==
    rendered.fn = "renderValue" =>
       LET value == rendered.value
           out == rendered.out
       IN  CASE NotSet(value) -> out = Span("Not set")
             [] value.k = "boolean" ->
                  out = Span(IF value.b THEN "Enabled" ELSE "Disabled")
             [] value.k = "array" /\ Len(value.l) = 0 -> out = Span("None")
             [] value.k = "array" /\ Len(value.l) > 0 ->
                  /\ out.el = "chips"
                  /\ Len(out.chips) = Len(value.l)
                  /\ \A i \in 1..Len(value.l) : out.chips[i] = ChipText(value.l[i])
             [] value.k = "object" -> out = Pre(JSONStringify(value, 2, 0))
             [] OTHER -> out = Span(value.s)

\* C10 witness: read mode has rendered an array holding an object and a
\* string as two chips, the object as its JSON text.
C10_Witness ==
    /\ rendered.fn = "renderValue"
    /\ rendered.value = JArr(<<JObj(<<[key |-> "id", val |-> JNum("1")]>>), JStr("a")>>)
    /\ rendered.out = Chips(<<"{\"id\":1}", "a">>)

\* C11 (as claimed): at most one fetch call is issued during the mount,
\* whatever the access credential does, and once a fetch has resolved the
\* settings object changes only through a successful save.
C11_FetchedOncePerMount ==
    [][/\ nFetch' <= 1
       /\ (hist.fetched /\ settings' # settings) => lastEvent'.name = "SaveOk"]_vars

\* C11 (amended): the mount and every change of the access credential issue
\* exactly one fetch call, with the new credential, when that credential is
\* not null, and no other event issues one; the settings object changes only
\* through a resolved fetch or a successful save.
C11_FetchedPerCredential ==
    [][/\ nFetch' # nFetch =>
             /\ Mount \/ \E token \in Tokens : TokenChange(token)
             /\ ~Falsy(accessToken')
       /\ ((Mount \/ \E token \in Tokens : TokenChange(token))
             /\ ~Falsy(accessToken')) =>
             /\ nFetch' = nFetch + 1
             /\ \E call \in fetches' :
                   /\ call \notin fetches
                   /\ fetches' = fetches \cup {call}
                   /\ call.token = accessToken'
       /\ fetches' \subseteq fetches \/ nFetch' # nFetch
       /\ settings' # settings => lastEvent'.name \in {"FetchOk", "SaveOk"}]_vars

\* C11 witness: a change of the credential has just issued the second fetch
\* call of the mount, after the first one had resolved.
C11_Witness ==
    /\ lastEvent.name = "TokenChange"
    /\ ~Falsy(accessToken)
    /\ hist.fetched
    /\ nFetch = 2
    /\ Cardinality(fetches) = 1

\* C12: settings.values changes only when a fetch resolves or a save
\* succeeds: Edit Settings, a field change, Cancel, a Save click, a failed
\* save, a failed fetch and a fetch skipped for lack of a credential leave it
\* unchanged; a field change sets one key k of the buffer, a key of
\* schema.properties, and leaves every other key of the buffer, isEditing,
\* saving and loading unchanged.
C12_NoPartialPersistence ==
    [][/\ settings'.values # settings.values =>
             lastEvent'.name \in {"FetchOk", "SaveOk"}
       /\ (\/ EditClick
           \/ FieldChange
           \/ CancelClick
           \/ SaveClick
           \/ \E call \in updates : SaveFail(call)
           \/ \E call \in fetches : FetchFail(call)
           \/ (Mount \/ \E token \in Tokens : TokenChange(token))
                 /\ Falsy(accessToken')) =>
             settings' = settings
       /\ FieldChange =>
             /\ \E key \in Keys(settings.schema.properties) :
                   /\ Keys(editedValues') = Keys(editedValues) \cup {key}
                   /\ \A other \in Keys(editedValues') \ {key} :
                         editedValues'[other] = editedValues[other]
             /\ UNCHANGED <<isEditing, saving, loading>>]_vars

\* C12 witness: a field has just been changed in a buffer that holds another
\* key as well; the displayed values are not those of the buffer.
C12_Witness ==
    /\ lastEvent.name = "FieldChange"
    /\ Cardinality(Keys(editedValues)) = 2
    /\ editedValues # settings.values
    /\ isEditing

\* C13: saving is true exactly while an update call issued by Save is in
\* flight: a Save click that issues a call sets it, and the completion of the
\* call, resolved or rejected, sets it back to false and leaves no call in
\* flight; while saving is true the panel is in edit mode, Cancel takes no
\* click and no step is a Cancel.
C13_SavingTracksUpdate ==
    [][/\ saving' <=> updates' # {}
       /\ saving' => isEditing' /\ ~CancelEnabled'
       /\ saving => ~CancelClick
       /\ (SaveClick /\ updates' # updates) => ~saving /\ saving'
       /\ \A call \in updates :
             (SaveFail(call)
                \/ \E returned \in UpdateResponses(call.payload) :
                      SaveOk(call, returned)) =>
                /\ saving /\ ~saving'
                /\ updates' = {}]_vars

\* C13 witness: an update call is in flight, and a fetch started by a change
\* of the credential has just resolved, in edit mode.
C13_Witness ==
    /\ saving
    /\ updates # {}
    /\ isEditing
    /\ lastEvent.name = "FetchOk"

\* C14: while the panel is in edit mode the edit buffer is changed only by a
\* field change, or reset by Cancel: no fetch completion and no save
\* completion changes it.
C14_EditsSurviveNetwork ==
    [][(isEditing /\ editedValues' # editedValues) =>
          lastEvent'.name \in {"FieldChange", "CancelClick"}]_vars

\* C15: after every successful save completion settings.schema is the schema
\* delivered by the most recent successful fetch.
C15_SaveKeepsSchema ==
    lastEvent.name = "SaveOk" => settings.schema = hist.schema

\* C16: once loading is false it is never true again, a later fetch started
\* by a credential change included; after the mount loading stays true only
\* while a fetch call is in flight, and the completion of a fetch call,
\* resolved or rejected, and a mount or credential change with a null
\* credential all leave loading false.
C16_LoadingEndsForGood ==
    [][/\ ~loading => ~loading'
       /\ (mounted' /\ loading') => fetches' # {}
       /\ \A call \in fetches :
             (FetchFail(call)
                \/ \E data \in FetchResponses : FetchOk(call, data)) =>
                ~loading'
       /\ ((Mount \/ \E token \in Tokens : TokenChange(token))
             /\ Falsy(accessToken')) => ~loading']_vars

\* C16 witness: loading has ended and a change of the credential has just
\* started another fetch, which is in flight.
C16_Witness ==
    /\ lastEvent.name = "TokenChange"
    /\ ~Falsy(accessToken)
    /\ fetches # {}
    /\ ~loading

=============================================================================
